---- MODULE Spec2Model ----
(***************************************************************************)
(* Model of the YMU settings store (src/src/settings_manager.py) and of    *)
(* its script directories (src/src/lua_manager.py).                        *)
(*                                                                         *)
(* A settings document is a JSON value.  It is represented as a function   *)
(* from a prefix-closed set of paths to tags: the root is the path <<>>,   *)
(* a mapping node carries the tag "map", every other node the tag of its   *)
(* scalar.  A path is a sequence of keys and a key is a sequence of        *)
(* chunks of characters (the empty key is <<>>), so that                   *)
(* key_path.split(".") is computed and not assumed.                        *)
(*                                                                         *)
(* file and tmp are the settings files and their ".tmp" neighbours, cache  *)
(* and lastmod the fields _settings_cache and _last_modified, clock the    *)
(* timestamp the file system gives to a file written now, pc the position  *)
(* of the caller (idle, or inside _write_json_safely: before shutil.move,  *)
(* inside its copy, before os.path.getmtime, or in                         *)
(* sync_auto_reload_settings between its read and its write).  dirs is     *)
(* the content of the four script directories.  cur, last and degraded     *)
(* record what the calls did, for the properties: the call in progress,    *)
(* the last call that returned, and whether a cache entry holds the {} of  *)
(* a read that met an I/O error.                                           *)
(***************************************************************************)
EXTENDS Integers, Sequences, FiniteSets, TLC

VARIABLES file, tmp, cache, lastmod, clock, pc, cur, last, degraded, dirs,
          race, upd

vars ==
    <<file, tmp, cache, lastmod, clock, pc, cur, last, degraded, dirs, race,
      upd>>

\* ------------------------------------------------------------- bounds
\* Number of distinct modification timestamps the file system hands out.
MaxClock == 2

\* ---------------------------------------------------------- documents
Installations == {"v1", "v2"}

\* Identifiers a caller may pass as yim_version.
YimVersions == {"v1", "v2", "legacy"}

\* SETTINGS_FILE_PATHS; the temporary file of a write is the path + ".tmp",
\* modelled as the entry of tmp at the same path.
SETTINGS_FILE_PATHS ==
    [v \in Installations |->
        IF v = "v1" THEN "YimMenu/settings.json" ELSE "YimMenuV2/settings.json"]

FilePaths == {SETTINGS_FILE_PATHS[v] : v \in Installations}

Scalars == {"true", "false"}

EmptyDoc == (<<>> :> "map")

\* Python's None, which is also what json.load returns for the text null.
NoneDoc == (<<>> :> "null")

\* The default a caller hands to get_setting: a value no document holds.
DefaultVal == (<<>> :> "DEFAULT")

ScalarDoc(tag) == (<<>> :> tag)

IsPrefix(p, q) == Len(p) <= Len(q) /\ SubSeq(q, 1, Len(p)) = p

\* The value stored at path p of document d (d[k1][k2]...), as a document.
SubTree(d, p) ==
    LET below == {q \in DOMAIN d : IsPrefix(p, q)}
        rel(q) == SubSeq(q, Len(p) + 1, Len(q))
    IN  [r \in {rel(q) : q \in below} |-> d[p \o r]]

\* d[k1]...[kn] = tag as Python executes it: whatever was stored at p goes.
Graft(d, p, tag) ==
    [q \in ({x \in DOMAIN d : ~IsPrefix(p, x)} \cup {p}) |->
        IF q = p THEN tag ELSE d[q]]

\* ---------------------------------------------------------- key paths
\* A key path is a string; here a sequence of chunks, "." being the
\* separator.  str.split(".") always returns at least one segment.
RECURSIVE SplitFrom(_, _, _)
SplitFrom(s, i, seg) ==
    IF i > Len(s) THEN <<seg>>
    ELSE IF s[i] = "." THEN <<seg>> \o SplitFrom(s, i + 1, <<>>)
    ELSE SplitFrom(s, i + 1, Append(seg, s[i]))

Split(key_path) == SplitFrom(key_path, 1, <<>>)

KP_lua == <<"lua">>
KP_auto_reload_scripts == <<"lua", ".", "auto_reload_scripts">>
KP_light_mode == <<"theme", ".", "light_mode">>
KP_auto_reload_changed_scripts == <<"lua", ".", "auto_reload_changed_scripts">>
KP_external_console == <<"debug", ".", "external_console">>

\* The four documented default keys.
DefaultPaths ==
    {KP_auto_reload_scripts, KP_auto_reload_changed_scripts,
     KP_external_console, KP_light_mode}

\* The key paths callers write, and the ones they read.
SetPaths == {KP_lua, KP_auto_reload_scripts, KP_light_mode}
GetPaths == SetPaths

\* ------------------------------------------------------------- files
\* A file: missing, a JSON document ("doc"), text that is not JSON
\* ("malformed"), bytes that are not UTF-8 ("undecodable"), or a file being
\* written ("partial": opened for writing and not yet complete).
Missing == [kind |-> "missing", doc |-> EmptyDoc, mtime |-> 0]

FileOf(kind, doc, mtime) == [kind |-> kind, doc |-> doc, mtime |-> mtime]

\* A temporary file a failed write left behind.  The store never reads it:
\* the next write opens it with "w" before anything else touches it.
Leftover == [kind |-> "leftover", doc |-> EmptyDoc, mtime |-> 0]

\* What another program (the game, an editor) may leave in a settings file.
Doc_ext ==
    Graft(Graft(Graft(EmptyDoc, <<<<"lua">>>>, "true"),
                <<<<"theme">>>>, "map"),
          <<<<"theme">>, <<"light_mode">>>>, "true")
Doc_list == ScalarDoc("list")

ExtContents ==
    {[kind |-> "doc", doc |-> d] : d \in {Doc_ext, Doc_list}}
    \cup {[kind |-> k, doc |-> EmptyDoc] : k \in {"malformed", "undecodable"}}

\* version_key = "v2" if yim_version == "v2" else "v1"
VersionKey(yim_version) == IF yim_version = "v2" THEN "v2" ELSE "v1"

\* Mutant of GetFilePath: every identifier selects the legacy file.
GetFilePath_legacy(yim_version) == SETTINGS_FILE_PATHS["v1"]

\* _get_file_path, which derives the key from yim_version on its own.
GetFilePath(yim_version) ==
    SETTINGS_FILE_PATHS[IF yim_version = "v2" THEN "v2" ELSE "v1"]

\* The call in progress (a write of set_setting or ensure_settings_file_exists)
\* and the last call that returned.  pre is the settings file as the call found
\* it, fault tells that the document the call works on is the {} of a read
\* that met an OSError (or derives from it), mtime is the timestamp of the
\* file the replace step put in place, ext tells that another process touched
\* the file during the call, reread that the call read the file.
NoCall == [op |-> "none", ver |-> "v1", path |-> "none", kp |-> <<>>,
           val |-> "true", data |-> EmptyDoc, pre |-> Missing,
           fault |-> FALSE, mtime |-> 0, ext |-> FALSE]

NoLast == [op |-> "init", ver |-> "v1", ret |-> "none", why |-> "ok",
           reread |-> FALSE]

\* ------------------------------------------------ script directories
\* lua_manager.py.  A file name is the sequence of its characters, so that
\* endswith, removesuffix and sorted are computed on it; dirs gives, for each
\* script directory, what it holds under each name: "none" (no entry), "dir"
\* (a directory) or the content of a regular file.  A directory that does not
\* exist and an empty one are not told apart: every function creates the
\* directories it uses (os.makedirs, exist_ok) or treats both alike.
SCRIPTS_PATH == "YimMenu/scripts"
DISABLED_SCRIPTS_PATH == "YimMenu/scripts/disabled"
SCRIPTS_PATH_V2 == "YimMenuV2/scripts"
DISABLED_SCRIPTS_PATH_V2 == "YimMenuV2/scripts/disabled"

DirPaths ==
    {SCRIPTS_PATH, DISABLED_SCRIPTS_PATH, SCRIPTS_PATH_V2,
     DISABLED_SCRIPTS_PATH_V2}

Chars == {"-", ".", "a", "b", "l", "n", "t", "u", "x"}

\* ord(c): Python compares strings by the code points of their characters.
Ord ==
    [c \in Chars |->
        CASE c = "-" -> 45 [] c = "." -> 46 [] c = "a" -> 97 [] c = "b" -> 98
          [] c = "l" -> 108 [] c = "n" -> 110 [] c = "t" -> 116
          [] c = "u" -> 117 [] c = "x" -> 120]

LuaSuffix == <<".", "l", "u", "a">>

\* The filename arguments of the calls: the scripts "a" and "a-b".
ScriptNames == {<<"a">>, <<"a", "-", "b">>}

\* actual_filename = f"{filename}.lua"
ActualFilename(filename) == filename \o LuaSuffix

\* Two entries of a scripts directory that are not scripts: the text file
\* n.txt and a directory named x.lua.
Notes_txt == <<"n", ".", "t", "x", "t">>
Folder_lua == <<"x">> \o LuaSuffix

FileNames ==
    {ActualFilename(n) : n \in ScriptNames} \cup {Notes_txt, Folder_lua}

\* Every script is in exactly one directory of an installation: a.lua is
\* enabled in v1 and disabled, with another content, in v2; a-b.lua is
\* disabled in v1.
InitDirs ==
    [d \in DirPaths |->
        [n \in FileNames |->
            IF d = SCRIPTS_PATH /\ n = ActualFilename(<<"a">>) THEN "c1"
            ELSE IF d = SCRIPTS_PATH /\ n = Notes_txt THEN "text"
            ELSE IF d = SCRIPTS_PATH /\ n = Folder_lua THEN "dir"
            ELSE IF d = DISABLED_SCRIPTS_PATH
                    /\ n = ActualFilename(<<"a", "-", "b">>) THEN "c1"
            ELSE IF d = DISABLED_SCRIPTS_PATH_V2
                    /\ n = ActualFilename(<<"a">>) THEN "c2"
            ELSE "none"]]

\* ------------------------------------------------ two racing writers
\* Two callers (threads of one process, or two processes) inside
\* _write_json_safely for the same settings file.  Both use the one temporary
\* name file_path + ".tmp".  The names settings.json and settings.json.tmp
\* each refer to an inode (0: no such name), an open file is a handle on an
\* inode, and the text of an inode is a sequence of blocks.
Writers == {"A", "B"}

Inodes == {1, 2, 3}

\* The serialisation json.dump produces for the document of writer w: n
\* blocks, each marked with the writer it comes from.
TextOf(w, n) == [i \in 1..n |-> <<w, i>>]

\* The documents the writers write differ in length.
TextLengths == [w \in Writers |-> IF w = "A" THEN {3} ELSE {2, 3}]

OldText == <<<<"old", 1>>>>

InitRace ==
    [tmp |-> 0, file |-> 1, used |-> {1},
     data |-> [i \in Inodes |-> IF i = 1 THEN OldText ELSE <<>>],
     w |-> [w \in Writers |->
              [pc |-> "idle", h |-> 0, text |-> <<>>, ret |-> "none"]]]

\* ------------------------------------------------------- update check
\* update_checker.py.  A version is the tuple of the numbers of its release
\* segment ("v1.1.7" is <<1, 1, 7>>); the empty tuple stands for a tag that
\* is not a version.
REPO == "tommylam120/YMU"

CACHE_DURATION_SECONDS == 300

STATUS_ERROR == "ERROR"

STATUS_UPDATE_AVAILABLE == "UPDATE_AVAILABLE"

STATUS_UP_TO_DATE == "UP_TO_DATE"

STATUS_AHEAD == "AHEAD"

LOCAL_VERSION == <<1, 1, 7>>

\* The tags the release host may report: an older, the same and a newer
\* version, and a tag that is not a version.
RemoteTags == {<<1, 1, 6>>, <<1, 1, 7>>, <<1, 1, 10>>, <<>>}

\* What provider.get_latest_release() does: it returns a release, returns
\* None, or raises.
HostReplies ==
    {[kind |-> "release", version_tag |-> t] : t \in RemoteTags}
    \cup {[kind |-> k, version_tag |-> <<>>] : k \in {"none", "raise"}}

\* The readings of time.time() advance by these amounts between two calls.
TimeSteps == {150, 299, 300}

MaxTime == 900

\* Segment i of a release, missing segments counting as 0.
Segment(release, i) == IF i <= Len(release) THEN release[i] ELSE 0

\* remote > local, remote == local on parsed versions: the release tuples are
\* compared number by number from the left.
RECURSIVE CompareFrom(_, _, _)
CompareFrom(a, b, i) ==
    IF i > Len(a) /\ i > Len(b) THEN "equal"
    ELSE IF Segment(a, i) > Segment(b, i) THEN "greater"
    ELSE IF Segment(a, i) < Segment(b, i) THEN "less"
    ELSE CompareFrom(a, b, i + 1)

\* (status, data) of a call: data is the remote version or a message.
Result(status, remote_version, message) ==
    [status |-> status, version |-> remote_version, message |-> message]

NoResult == Result("none", <<>>, "")

\* _update_cache = {}; no call made yet.  `check` is the most recent call that
\* queried the host and produced a version comparison, with the time it read.
InitUpdate ==
    [now |-> 0,
     cache |-> [r \in {} |-> [cached_data |-> NoResult, timestamp |-> 0]],
     ret |-> NoResult, queried |-> FALSE,
     check |-> [made |-> FALSE, result |-> NoResult, time |-> 0]]

Init ==
    /\ file = [p \in FilePaths |-> Missing]
    /\ tmp = [p \in FilePaths |-> Missing]
    /\ cache = [v \in Installations |-> NoneDoc]
    /\ lastmod = [v \in Installations |-> 0]
    /\ clock = 1
    /\ pc = "idle"
    /\ cur = NoCall
    /\ last = NoLast
    /\ degraded = [v \in Installations |-> FALSE]
    /\ dirs = InitDirs
    /\ race = InitRace
    /\ upd = InitUpdate

\* --------------------------------------------------------------- reads
\* The I/O errors a read may meet on a file that exists: none, OSError from
\* os.path.getmtime ("stat"), OSError from open or from reading ("open").
ReadFaults == {"none", "stat", "open"}

\* Mutant of ReadJsonSafely: a failed read returns None instead of {}.
ReadJsonSafely_none(f, fault) ==
    IF f.kind = "missing" THEN [raised |-> FALSE, doc |-> EmptyDoc]
    ELSE IF fault = "open" THEN [raised |-> FALSE, doc |-> NoneDoc]
    ELSE IF f.kind = "doc" THEN [raised |-> FALSE, doc |-> f.doc]
    ELSE IF f.kind = "undecodable" THEN [raised |-> TRUE, doc |-> EmptyDoc]
    ELSE [raised |-> FALSE, doc |-> NoneDoc]

\* _read_json_safely: the parsed value, or {} when the file is missing, the
\* open fails (OSError) or the text is not JSON (JSONDecodeError).  A file
\* that is not valid UTF-8 makes json.load raise UnicodeDecodeError, which is
\* a ValueError but not a JSONDecodeError: the except clause lets it through.
ReadJsonSafely(f, fault) ==
    IF f.kind = "missing" THEN [raised |-> FALSE, doc |-> EmptyDoc]
    ELSE IF fault = "open" THEN [raised |-> FALSE, doc |-> EmptyDoc]
    ELSE IF f.kind = "doc" THEN [raised |-> FALSE, doc |-> f.doc]
    ELSE IF f.kind = "undecodable" THEN [raised |-> TRUE, doc |-> EmptyDoc]
    ELSE [raised |-> FALSE, doc |-> EmptyDoc]

\* The cached entry is reused iff it is not None and the recorded mtime is the
\* file's current one.
NeedRead(version_key, f) ==
    cache[version_key] = NoneDoc \/ lastmod[version_key] # f.mtime

\* Mutant of GetSettingsWithCache: the {} of a missing file is stored in the
\* cache like the result of any other read.
GetSettingsWithCache_populate(yim_version, fault) ==
    LET version_key == VersionKey(yim_version)
        f == file[GetFilePath(yim_version)]
        keep == [raised |-> FALSE, data |-> EmptyDoc, shared |-> FALSE,
                 reread |-> FALSE, cache |-> cache[version_key],
                 lastmod |-> lastmod[version_key], lost |-> FALSE,
                 degraded |-> degraded[version_key]]
        r == ReadJsonSafely(f, fault)
    IN  IF f.kind # "missing" /\ fault = "stat"
        THEN [keep EXCEPT !.lost = TRUE]
        ELSE IF f.kind = "missing" \/ NeedRead(version_key, f) THEN
            IF r.raised THEN [keep EXCEPT !.raised = TRUE, !.reread = TRUE]
            ELSE [raised |-> FALSE, data |-> r.doc, shared |-> TRUE,
                  reread |-> TRUE, cache |-> r.doc, lastmod |-> f.mtime,
                  lost |-> fault = "open", degraded |-> fault = "open"]
        ELSE [keep EXCEPT !.data = cache[version_key], !.shared = TRUE,
                          !.lost = degraded[version_key]]

\* _get_settings_with_cache.  data is what the caller gets; shared tells that
\* data is the cached object itself (the caller's in-place changes are changes
\* of the cache); cache and lastmod are the entry's values afterwards.  lost
\* tells that data is the {} of a read that met an OSError, or a cached copy
\* of it, and degraded whether the cache entry is such a copy afterwards.
GetSettingsWithCache(yim_version, fault) ==
    LET version_key == VersionKey(yim_version)
        f == file[GetFilePath(yim_version)]
        keep == [raised |-> FALSE, data |-> EmptyDoc, shared |-> FALSE,
                 reread |-> FALSE, cache |-> cache[version_key],
                 lastmod |-> lastmod[version_key], lost |-> FALSE,
                 degraded |-> degraded[version_key]]
        r == ReadJsonSafely(f, fault)
    IN  IF f.kind = "missing" THEN keep
        ELSE IF fault = "stat" THEN [keep EXCEPT !.lost = TRUE]
        ELSE IF NeedRead(version_key, f) THEN
            IF r.raised THEN [keep EXCEPT !.raised = TRUE, !.reread = TRUE]
            ELSE [raised |-> FALSE, data |-> r.doc, shared |-> TRUE,
                  reread |-> TRUE, cache |-> r.doc, lastmod |-> f.mtime,
                  lost |-> fault = "open", degraded |-> fault = "open"]
        ELSE [keep EXCEPT !.data = cache[version_key], !.shared = TRUE,
                          !.lost = degraded[version_key]]

\* value[key] on the node at path pos of d: the exception Python raises, if any.
IndexError(d, pos, key) ==
    IF d[pos] # "map" THEN "TypeError"
    ELSE IF Append(pos, key) \notin DOMAIN d THEN "KeyError"
    ELSE "none"

\* The loop of get_setting: [exc, value].
RECURSIVE LookupFrom(_, _, _, _)
LookupFrom(d, pos, keys, i) ==
    IF i > Len(keys) THEN [exc |-> "none", value |-> SubTree(d, pos)]
    ELSE LET e == IndexError(d, pos, keys[i])
         IN  IF e # "none" THEN [exc |-> e, value |-> DefaultVal]
             ELSE LookupFrom(d, Append(pos, keys[i]), keys, i + 1)

\* The exceptions get_setting's except clause absorbs.
GetSettingCatches == {"KeyError", "TypeError"}

\* get_setting on data: [raised, value].
GetSettingValue(data, keys) ==
    LET r == LookupFrom(data, <<>>, keys, 1)
    IN  IF r.exc = "none" THEN [raised |-> FALSE, value |-> r.value]
        ELSE IF r.exc \in GetSettingCatches
             THEN [raised |-> FALSE, value |-> DefaultVal]
        ELSE [raised |-> TRUE, value |-> DefaultVal]

\* What a get_setting call does in the current state: whether it raises, the
\* value it returns, the document it answers from (used), whether it read the
\* file, and the cache entry it leaves.
GetOutcome(yim_version, key_path, fault) ==
    LET g == GetSettingsWithCache(yim_version, fault)
        r == GetSettingValue(g.data, Split(key_path))
    IN  [raised |-> g.raised \/ r.raised,
         value |-> IF g.raised THEN DefaultVal ELSE r.value,
         used |-> g.data, reread |-> g.reread,
         cache |-> g.cache, lastmod |-> g.lastmod, degraded |-> g.degraded]

\* A get_setting that writes the empty document it degraded to back to the
\* settings file.
get_setting_writeback(yim_version, key_path, fault) ==
    LET v == VersionKey(yim_version)
        o == GetOutcome(yim_version, key_path, fault)
        path == GetFilePath(yim_version)
    IN  /\ pc = "idle"
        /\ cache' = [cache EXCEPT ![v] = o.cache]
        /\ lastmod' = [lastmod EXCEPT ![v] = o.lastmod]
        /\ degraded' = [degraded EXCEPT ![v] = o.degraded]
        /\ last' = [NoLast EXCEPT
                      !.op = "get", !.ver = v, !.reread = o.reread,
                      !.ret = IF o.raised THEN "raise" ELSE "value"]
        /\ file' = IF file[path].kind = "malformed" /\ o.reread
                   THEN [file EXCEPT ![path] = FileOf("doc", EmptyDoc, clock)]
                   ELSE file
        /\ UNCHANGED <<race, upd, dirs, tmp, clock, pc, cur>>

get_setting(yim_version, key_path, fault) ==
    LET v == VersionKey(yim_version)
        o == GetOutcome(yim_version, key_path, fault)
    IN  /\ pc = "idle"
        /\ cache' = [cache EXCEPT ![v] = o.cache]
        /\ lastmod' = [lastmod EXCEPT ![v] = o.lastmod]
        /\ degraded' = [degraded EXCEPT ![v] = o.degraded]
        /\ last' = [NoLast EXCEPT
                      !.op = "get", !.ver = v, !.reread = o.reread,
                      !.ret = IF o.raised THEN "raise" ELSE "value"]
        /\ UNCHANGED <<race, upd, dirs, file, tmp, clock, pc, cur>>

\* get_both_auto_reload_settings: get_auto_reload_changed_scripts("v1"), then
\* get_auto_reload_changed_scripts("v2"); an exception of the first read ends
\* the call before the second one.
get_both_auto_reload_settings(fault1, fault2) ==
    LET o1 == GetOutcome("v1", KP_auto_reload_changed_scripts, fault1)
        o2 == GetOutcome("v2", KP_auto_reload_changed_scripts, fault2)
    IN  /\ pc = "idle"
        /\ cache' = [cache EXCEPT !["v1"] = o1.cache,
                                  !["v2"] = IF o1.raised THEN @ ELSE o2.cache]
        /\ lastmod' = [lastmod EXCEPT !["v1"] = o1.lastmod,
                                      !["v2"] = IF o1.raised THEN @ ELSE o2.lastmod]
        /\ degraded' = [degraded EXCEPT !["v1"] = o1.degraded,
                                        !["v2"] = IF o1.raised THEN @ ELSE o2.degraded]
        /\ last' = [NoLast EXCEPT
                      !.op = "getboth", !.ver = "v1",
                      !.reread = o1.reread \/ (~o1.raised /\ o2.reread),
                      !.ret = IF o1.raised \/ o2.raised THEN "raise" ELSE "value"]
        /\ UNCHANGED <<race, upd, dirs, file, tmp, clock, pc, cur>>

\* -------------------------------------------------------------- writes
\* The traversal of set_setting: [raised, doc].  Only the root can be a
\* non-mapping when it is indexed (every lower node is checked with isinstance
\* and replaced), and every non-mapping root raises: "key not in d" or the
\* item assignment fails with TypeError, before anything was changed.
\* Mutant of WalkFrom: a missing or non-mapping intermediate segment is
\* walked into a fresh mapping that is never attached (d = d.get(key, {})).
RECURSIVE WalkFrom_detached(_, _, _, _, _)
WalkFrom_detached(d, pos, keys, i, value) ==
    LET child == Append(pos, keys[i])
    IN  IF d[pos] # "map" THEN [raised |-> TRUE, doc |-> d]
        ELSE IF i = Len(keys)
             THEN [raised |-> FALSE, doc |-> Graft(d, child, value)]
        ELSE IF child \notin DOMAIN d \/ d[child] # "map"
             THEN [raised |-> FALSE, doc |-> d]
        ELSE WalkFrom_detached(d, child, keys, i + 1, value)

\* Mutant of WalkFrom: the leaf is assigned on the root (data[keys[-1]] =
\* value) instead of on the mapping the walk arrived at.
RECURSIVE WalkFrom_root(_, _, _, _, _)
WalkFrom_root(d, pos, keys, i, value) ==
    LET child == Append(pos, keys[i])
    IN  IF d[pos] # "map" THEN [raised |-> TRUE, doc |-> d]
        ELSE IF i = Len(keys)
             THEN [raised |-> FALSE, doc |-> Graft(d, <<keys[i]>>, value)]
        ELSE IF child \notin DOMAIN d \/ d[child] # "map"
             THEN WalkFrom_root(Graft(d, child, "map"), child, keys, i + 1, value)
        ELSE WalkFrom_root(d, child, keys, i + 1, value)

\* Mutant of WalkFrom: a root that is not a mapping is replaced by a fresh
\* mapping instead of failing the traversal.
RECURSIVE WalkFrom_replace(_, _, _, _, _)
WalkFrom_replace(d, pos, keys, i, value) ==
    LET child == Append(pos, keys[i])
    IN  IF d[pos] # "map"
        THEN WalkFrom_replace(EmptyDoc, pos, keys, i, value)
        ELSE IF i = Len(keys)
             THEN [raised |-> FALSE, doc |-> Graft(d, child, value)]
        ELSE IF child \notin DOMAIN d \/ d[child] # "map"
             THEN WalkFrom_replace(Graft(d, child, "map"), child, keys, i + 1,
                                   value)
        ELSE WalkFrom_replace(d, child, keys, i + 1, value)

RECURSIVE WalkFrom(_, _, _, _, _)
WalkFrom(d, pos, keys, i, value) ==
    LET child == Append(pos, keys[i])
    IN  IF d[pos] # "map" THEN [raised |-> TRUE, doc |-> d]
        ELSE IF i = Len(keys)
             THEN [raised |-> FALSE, doc |-> Graft(d, child, value)]
        ELSE IF child \notin DOMAIN d \/ d[child] # "map"
             THEN WalkFrom(Graft(d, child, "map"), child, keys, i + 1, value)
        ELSE WalkFrom(d, child, keys, i + 1, value)

SetWalk(data, keys, value) == WalkFrom(data, <<>>, keys, 1, value)

\* Mutant of DefaultSettings: light_mode defaults to true and the document
\* carries a version key.
DefaultSettings_extra ==
    (<<>> :> "map")
    @@ (<<<<"lua">>>> :> "map")
    @@ (<<<<"lua">>, <<"auto_reload_scripts">>>> :> "false")
    @@ (<<<<"lua">>, <<"auto_reload_changed_scripts">>>> :> "false")
    @@ (<<<<"debug">>>> :> "map")
    @@ (<<<<"debug">>, <<"external_console">>>> :> "false")
    @@ (<<<<"theme">>>> :> "map")
    @@ (<<<<"theme">>, <<"light_mode">>>> :> "true")
    @@ (<<<<"version">>>> :> "true")

\* default_settings of ensure_settings_file_exists.
DefaultSettings ==
    (<<>> :> "map")
    @@ (<<<<"lua">>>> :> "map")
    @@ (<<<<"lua">>, <<"auto_reload_scripts">>>> :> "false")
    @@ (<<<<"lua">>, <<"auto_reload_changed_scripts">>>> :> "false")
    @@ (<<<<"debug">>>> :> "map")
    @@ (<<<<"debug">>, <<"external_console">>>> :> "false")
    @@ (<<<<"theme">>>> :> "map")
    @@ (<<<<"theme">>, <<"light_mode">>>> :> "false")

Busy == [NoLast EXCEPT !.op = "busy"]

\* The call returns (or raises): it becomes the last call.  The first
\* set_setting of set_auto_reload_setting (op "both1") returns to the wrapper,
\* which goes on with success1 in hand (op "both2t" or "both2f"); the second
\* returns success1 and success2 as the result of the wrapper (op "both").
Return(call, ret, why) ==
    IF call.op = "both1" /\ ret # "raise" THEN
        /\ last' = Busy
        /\ pc' = "both"
        /\ cur' = [NoCall EXCEPT
                      !.op = IF ret = "true" THEN "both2t" ELSE "both2f",
                      !.ver = call.ver, !.val = call.val]
    ELSE
        /\ last' = [op |-> IF call.op \in {"both1", "both2t", "both2f"}
                           THEN "both" ELSE call.op,
                    ver |-> call.ver,
                    ret |-> IF call.op = "ensure" THEN "none"
                            ELSE IF call.op = "both2f" /\ ret = "true"
                            THEN "false" ELSE ret,
                    why |-> why, reread |-> FALSE]
        /\ pc' = "idle"
        /\ cur' = NoCall

\* _write_json_safely up to the closing of the temporary file: makedirs or
\* open may fail (nothing written), json.dump may fail half way (OSError, a
\* partial temporary file), or the temporary file holds the whole document.
WriteOutcomes == {"ok", "open_fails", "dump_fails"}

WriteJsonBegin(call, outcome) ==
    IF outcome = "open_fails" THEN
        /\ tmp' = tmp
        /\ Return(call, "false", "oserror")
    ELSE IF outcome = "dump_fails" THEN
        /\ tmp' = [tmp EXCEPT ![call.path] = Leftover]
        /\ Return(call, "false", "oserror")
    ELSE
        /\ tmp' = [tmp EXCEPT ![call.path] = FileOf("doc", call.data, clock)]
        /\ pc' = "move"
        /\ cur' = call
        /\ last' = Busy

\* The body of set_setting up to the closing of the temporary file, for the
\* caller op ("set": a direct call, "sync": sync_auto_reload_settings).
SetSettingFrom(op, yim_version, key_path, value, fault, outcome) ==
    LET v == VersionKey(yim_version)
        g == GetSettingsWithCache(yim_version, fault)
        w == SetWalk(g.data, Split(key_path), value)
        call == [op |-> op, ver |-> v,
                 path |-> GetFilePath(yim_version), kp |-> key_path,
                 val |-> value,
                 data |-> IF g.raised THEN EmptyDoc ELSE w.doc,
                 pre |-> file[GetFilePath(yim_version)],
                 fault |-> g.lost, mtime |-> 0, ext |-> FALSE]
    IN  /\ lastmod' = [lastmod EXCEPT ![v] = g.lastmod]
        /\ degraded' = [degraded EXCEPT ![v] = g.degraded]
        /\ IF g.raised THEN
               /\ cache' = cache
               /\ tmp' = tmp
               /\ Return(call, "raise", "decode")
           ELSE
               \* d[key] = ... changes the object the cache holds
               /\ cache' = [cache EXCEPT ![v] =
                              IF g.shared /\ ~w.raised THEN w.doc ELSE g.cache]
               /\ IF w.raised
                  THEN tmp' = tmp /\ Return(call, "false", "traverse")
                  ELSE WriteJsonBegin(call, outcome)
        /\ UNCHANGED <<race, upd, dirs, file, clock>>

set_setting(yim_version, key_path, value, fault, outcome) ==
    /\ pc = "idle"
    /\ SetSettingFrom("set", yim_version, key_path, value, fault, outcome)

\* Mutant of SameVersion: the test is never true.
SameVersion_never(source_version, target_version) ==
    source_version # source_version

\* source_version == target_version, a comparison of the identifiers.
SameVersion(source_version, target_version) ==
    source_version = target_version

\* get_auto_reload_changed_scripts: get_setting with the default False; the
\* value as the tag of the node read.
AutoReloadChanged(o) ==
    IF o.value = DefaultVal THEN "false" ELSE o.value[<<>>]

\* sync_auto_reload_settings up to the end of its read of the source: the
\* caller is then between lines 272 and 273 (pc = "sync"), the value in hand.
sync_auto_reload_settings(source_version, target_version, fault) ==
    LET v == VersionKey(source_version)
        o == GetOutcome(source_version, KP_auto_reload_changed_scripts, fault)
        done(ret, why) ==
            /\ last' = [op |-> "sync", ver |-> VersionKey(target_version),
                        ret |-> ret, why |-> why, reread |-> FALSE]
            /\ pc' = "idle"
            /\ cur' = NoCall
    IN  /\ pc = "idle"
        /\ IF SameVersion(source_version, target_version) THEN
               /\ done("true", "same")
               /\ UNCHANGED <<cache, lastmod, degraded>>
           ELSE
               /\ cache' = [cache EXCEPT ![v] = o.cache]
               /\ lastmod' = [lastmod EXCEPT ![v] = o.lastmod]
               /\ degraded' = [degraded EXCEPT ![v] = o.degraded]
               /\ IF o.raised THEN done("raise", "decode")
                  ELSE /\ pc' = "sync"
                       /\ cur' = [NoCall EXCEPT
                                     !.op = "sync",
                                     !.ver = VersionKey(target_version),
                                     !.val = AutoReloadChanged(o)]
                       /\ last' = Busy
        /\ UNCHANGED <<race, upd, dirs, file, tmp, clock>>

\* The module function set_auto_reload_setting up to the end of its first
\* set_setting (line 301).
set_auto_reload_setting(value, yim_version, fault, outcome) ==
    /\ pc = "idle"
    /\ SetSettingFrom("both1", yim_version, KP_auto_reload_scripts, value,
                      fault, outcome)

\* Line 302: the second set_setting of set_auto_reload_setting.
SetAutoReloadSecond(fault, outcome) ==
    /\ pc = "both"
    /\ SetSettingFrom(cur.op, cur.ver, KP_auto_reload_changed_scripts,
                      cur.val, fault, outcome)

\* Line 273: set_auto_reload_changed_scripts(value, target_version).
SyncSet(fault, outcome) ==
    /\ pc = "sync"
    /\ SetSettingFrom("sync", cur.ver, KP_auto_reload_changed_scripts,
                      cur.val, fault, outcome)

\* Mutant of Exists: only a file that parses counts as existing.
Exists_parsed(f) == f.kind = "doc"

\* os.path.exists(file_path): whatever the file holds.
Exists(f) == f.kind # "missing"

\* ensure_settings_file_exists up to the closing of the temporary file.
ensure_settings_file_exists(yim_version, outcome) ==
    LET call == [op |-> "ensure", ver |-> VersionKey(yim_version),
                 path |-> GetFilePath(yim_version), kp |-> <<>>,
                 val |-> "true", data |-> DefaultSettings,
                 pre |-> file[GetFilePath(yim_version)],
                 fault |-> FALSE, mtime |-> 0, ext |-> FALSE]
    IN  /\ pc = "idle"
        /\ IF Exists(call.pre)
           THEN tmp' = tmp /\ Return(call, "none", "exists")
           ELSE WriteJsonBegin(call, outcome)
        /\ UNCHANGED <<race, upd, dirs, file, cache, lastmod, clock, degraded>>

\* shutil.move(temp_file, file_path): os.rename replaces the target.
MoveRename ==
    /\ pc = "move"
    /\ file' = [file EXCEPT ![cur.path] = tmp[cur.path]]
    /\ tmp' = [tmp EXCEPT ![cur.path] = Missing]
    /\ pc' = "stat"
    /\ cur' = [cur EXCEPT !.mtime = tmp[cur.path].mtime]
    /\ UNCHANGED <<race, upd, dirs, cache, lastmod, clock, last, degraded>>

\* shutil.move when os.rename raises OSError (always so on Windows when the
\* target exists): it falls back to copy2(temp_file, file_path), which opens
\* the target for writing, copies, copies the timestamps, and then unlinks
\* the temporary file.
MoveCopyOpen ==
    /\ pc = "move"
    /\ file' = [file EXCEPT ![cur.path] = FileOf("partial", EmptyDoc, clock)]
    /\ pc' = "copy"
    /\ UNCHANGED <<race, upd, dirs, tmp, cache, lastmod, clock, cur, last, degraded>>

\* os.rename raises and the target cannot be opened for the copy either.
MoveFail ==
    /\ pc = "move"
    /\ tmp' = [tmp EXCEPT ![cur.path] = Leftover]
    /\ Return(cur, "false", "oserror")
    /\ UNCHANGED <<race, upd, dirs, file, cache, lastmod, clock, degraded>>

CopyDone ==
    /\ pc = "copy"
    /\ file' = [file EXCEPT ![cur.path] = tmp[cur.path]]
    /\ tmp' = [tmp EXCEPT ![cur.path] = Missing]
    /\ pc' = "stat"
    /\ cur' = [cur EXCEPT !.mtime = tmp[cur.path].mtime]
    /\ UNCHANGED <<race, upd, dirs, cache, lastmod, clock, last, degraded>>

\* The copy fails half way (disk full): OSError.
CopyFail ==
    /\ pc = "copy"
    /\ tmp' = [tmp EXCEPT ![cur.path] = Leftover]
    /\ Return(cur, "false", "oserror")
    /\ UNCHANGED <<race, upd, dirs, file, cache, lastmod, clock, degraded>>

\* The copy is complete and os.unlink(temp_file) fails: OSError.
UnlinkFail ==
    /\ pc = "copy"
    /\ file' = [file EXCEPT ![cur.path] = tmp[cur.path]]
    /\ tmp' = [tmp EXCEPT ![cur.path] = Leftover]
    /\ Return(cur, "false", "oserror")
    /\ UNCHANGED <<race, upd, dirs, cache, lastmod, clock, degraded>>

\* Lines 68-72: the cache entry, then os.path.getmtime (OSError if the file
\* is gone by now).
WriteJsonEnd ==
    /\ pc = "stat"
    /\ cache' = [cache EXCEPT ![cur.ver] = cur.data]
    /\ degraded' = [degraded EXCEPT ![cur.ver] = FALSE]
    /\ IF file[cur.path].kind = "missing"
       THEN lastmod' = lastmod /\ Return(cur, "false", "oserror")
       ELSE /\ lastmod' = [lastmod EXCEPT ![cur.ver] = file[cur.path].mtime]
            /\ Return(cur, "true", "ok")
    /\ UNCHANGED <<race, upd, dirs, file, tmp, clock>>

\* ------------------------------------------------- the world outside
ExtLast == [NoLast EXCEPT !.op = "ext"]

Interfere(path) ==
    /\ last' = IF pc = "idle" THEN ExtLast ELSE last
    /\ cur' = IF pc # "idle" /\ cur.path = path
              THEN [cur EXCEPT !.ext = TRUE] ELSE cur

\* Another process, or the user, replaces the settings file.
ExtWrite(v, c) ==
    /\ file' = [file EXCEPT ![SETTINGS_FILE_PATHS[v]] = FileOf(c.kind, c.doc, clock)]
    /\ Interfere(SETTINGS_FILE_PATHS[v])
    /\ UNCHANGED <<race, upd, dirs, tmp, cache, lastmod, clock, pc, degraded>>

ExtDelete(v) ==
    /\ file[SETTINGS_FILE_PATHS[v]].kind # "missing"
    /\ file' = [file EXCEPT ![SETTINGS_FILE_PATHS[v]] = Missing]
    /\ Interfere(SETTINGS_FILE_PATHS[v])
    /\ UNCHANGED <<race, upd, dirs, tmp, cache, lastmod, clock, pc, degraded>>

\* The file system's clock moves on to the next timestamp.
Tick ==
    /\ clock < MaxClock
    /\ clock' = clock + 1
    /\ UNCHANGED <<race, upd, dirs, file, tmp, cache, lastmod, pc, cur, last, degraded>>

\* ------------------------------------------------------ specifications
\* -------------------------------------------------------- lua_manager
\* s.endswith(suffix)
EndsWith(s, suffix) ==
    /\ Len(s) >= Len(suffix)
    /\ SubSeq(s, Len(s) - Len(suffix) + 1, Len(s)) = suffix

\* s.removesuffix(suffix)
RemoveSuffix(s, suffix) ==
    IF EndsWith(s, suffix) THEN SubSeq(s, 1, Len(s) - Len(suffix)) ELSE s

\* s < t for Python strings: at the first position where they differ the
\* code point of s is the smaller, or s is a proper prefix of t.
StrLess(s, t) ==
    \E i \in 1..(Len(s) + 1) :
        /\ \A j \in 1..(i - 1) : j <= Len(t) /\ s[j] = t[j]
        /\ \/ i = Len(s) + 1 /\ i <= Len(t)
           \/ i <= Len(s) /\ i <= Len(t) /\ Ord[s[i]] < Ord[t[i]]

\* sorted(names) for a list of distinct strings.
RECURSIVE Sorted(_)
Sorted(names) ==
    IF names = {} THEN <<>>
    ELSE LET m == CHOOSE x \in names :
                     \A y \in names \ {x} : StrLess(x, y)
         IN  <<m>> \o Sorted(names \ {m})

\* os.path.exists / os.path.isfile of directory/name.
PathExists(directory, name) == dirs[directory][name] # "none"
IsFile(directory, name) == dirs[directory][name] \notin {"none", "dir"}

\* _get_lua_files: os.listdir gives the names in no particular order.
GetLuaFiles(directory) ==
    {f \in FileNames :
        /\ PathExists(directory, f)
        /\ EndsWith(f, LuaSuffix) /\ IsFile(directory, f)}

\* The directories of an installation, as every function selects them
\* (if version == "v2" ... else ...) and as get_script_paths returns them.
get_script_paths(version) ==
    IF version = "v2"
    THEN [scripts_dir |-> SCRIPTS_PATH_V2,
          disabled_dir |-> DISABLED_SCRIPTS_PATH_V2]
    ELSE [scripts_dir |-> SCRIPTS_PATH,
          disabled_dir |-> DISABLED_SCRIPTS_PATH]

\* [s.removesuffix(".lua") for s in sorted(files)]
Display(files) ==
    [i \in 1..Len(Sorted(files)) |-> RemoveSuffix(Sorted(files)[i], LuaSuffix)]

LuaLast(op, version, filename, ret, why) ==
    [op |-> op, ver |-> version, ret |-> ret, why |-> why, reread |-> FALSE,
     name |-> filename]

LuaFrame ==
    UNCHANGED <<race, upd, file, tmp, cache, lastmod, clock, pc, cur, degraded>>

get_scripts(version) ==
    LET p == get_script_paths(version)
    IN  /\ pc = "idle"
        /\ last' = [op |-> "get_scripts", ver |-> version, ret |-> "value",
                    why |-> "ok", reread |-> FALSE,
                    enabled |-> Display(GetLuaFiles(p.scripts_dir)),
                    disabled |-> Display(GetLuaFiles(p.disabled_dir))]
        /\ dirs' = dirs
        /\ LuaFrame

\* shutil.move(src, dest) of a regular file: os.rename, which replaces an
\* existing dest; when the rename fails either nothing has changed or the
\* fallback has copied the file and the removal of src failed.
MoveOutcomes == {"ok", "fails", "unlink_fails"}

\* Mutant of ShutilMove: the file is copied and the source kept.
ShutilMove_keep(src_dir, dest_dir, name, outcome) ==
    IF outcome = "fails" THEN dirs
    ELSE [dirs EXCEPT ![dest_dir][name] = dirs[src_dir][name]]

ShutilMove(src_dir, dest_dir, name, outcome) ==
    IF outcome = "ok"
    THEN [dirs EXCEPT ![dest_dir][name] = dirs[src_dir][name],
                      ![src_dir][name] = "none"]
    ELSE IF outcome = "unlink_fails"
    THEN [dirs EXCEPT ![dest_dir][name] = dirs[src_dir][name]]
    ELSE dirs

\* Lines 87-107 and 125-145: the common body of enable_script and
\* disable_script.
MoveScript(op, filename, version, src_dir, dest_dir, outcome) ==
    LET actual_filename == ActualFilename(filename)
    IN  /\ pc = "idle"
        /\ IF ~PathExists(src_dir, actual_filename) THEN
               /\ dirs' = dirs
               /\ last' = LuaLast(op, version, filename, "false", "absent")
           ELSE
               /\ dirs' = ShutilMove(src_dir, dest_dir, actual_filename,
                                     outcome)
               /\ last' = LuaLast(op, version, filename,
                                  IF outcome = "ok" THEN "true" ELSE "false",
                                  outcome)
        /\ LuaFrame

enable_script(filename, version, outcome) ==
    MoveScript("enable", filename, version,
               get_script_paths(version).disabled_dir,
               get_script_paths(version).scripts_dir, outcome)

disable_script(filename, version, outcome) ==
    MoveScript("disable", filename, version,
               get_script_paths(version).scripts_dir,
               get_script_paths(version).disabled_dir, outcome)

CopyOutcomes == {"ok", "fails"}

\* Mutant of ValidVersions: no check of the identifiers.
ValidVersions_any(from_version, to_version) ==
    from_version = from_version

\* Line 219, negated.
ValidVersions(from_version, to_version) ==
    from_version \in {"v1", "v2"} /\ to_version \in {"v1", "v2"}

\* shutil.copy2 raises SameFileError, an OSError, when src and dest are the
\* same file, which is the case iff from_version is to_version.
copy_script_between_versions(filename, from_version, to_version, enabled, outcome) ==
    LET actual_filename == ActualFilename(filename)
        from_paths == get_script_paths(from_version)
        to_paths == get_script_paths(to_version)
        src_dir == IF enabled THEN from_paths.scripts_dir
                   ELSE from_paths.disabled_dir
        dest_dir == IF enabled THEN to_paths.scripts_dir
                    ELSE to_paths.disabled_dir
        done(ret, why) ==
            last' = LuaLast("copy", to_version, filename, ret, why)
    IN  /\ pc = "idle"
        /\ IF ~ValidVersions(from_version, to_version) THEN
               dirs' = dirs /\ done("false", "version")
           ELSE IF ~PathExists(src_dir, actual_filename) THEN
               dirs' = dirs /\ done("false", "absent")
           ELSE IF src_dir = dest_dir THEN
               dirs' = dirs /\ done("false", "samefile")
           ELSE IF outcome = "fails" THEN
               dirs' = dirs /\ done("false", "fails")
           ELSE
               /\ dirs' = [dirs EXCEPT ![dest_dir][actual_filename] =
                                          dirs[src_dir][actual_filename]]
               /\ done("true", "ok")
        /\ LuaFrame

\* --------------------------------------------- racing _write_json_safely
RaceFrame ==
    UNCHANGED <<upd, dirs, file, tmp, cache, lastmod, clock, pc, cur, last,
                degraded>>

\* Line 62, open(temp_file, "w"): the file under the temporary name is
\* truncated, or created when there is none.
RaceOpen(w, n) ==
    LET fresh == CHOOSE i \in Inodes : i \notin race.used
        h == IF race.tmp = 0 THEN fresh ELSE race.tmp
    IN  /\ race.w[w].pc \in {"idle", "done"}
        /\ race.tmp = 0 => race.used # Inodes
        /\ race' = [race EXCEPT
                      !.tmp = h, !.used = @ \cup {h}, !.data[h] = <<>>,
                      !.w[w] = [pc |-> "dump", h |-> h, text |-> TextOf(w, n),
                                ret |-> "none"]]
        /\ RaceFrame

\* written over old from its first block on, as a write at offset 0 of a
\* file that is not truncated again does.
Overlay(old, written) ==
    written \o SubSeq(old, Len(written) + 1, Len(old))

\* Lines 63-64: json.dump and the closing of the file.  The text of a small
\* document is buffered and reaches the inode in one write at offset 0 when
\* the file is closed.
RaceDump(w) ==
    /\ race.w[w].pc = "dump"
    /\ race' = [race EXCEPT
                  !.data[race.w[w].h] = Overlay(@, race.w[w].text),
                  !.w[w].pc = "move"]
    /\ RaceFrame

\* Line 65, shutil.move as an os.rename: the temporary name becomes the
\* settings file; FileNotFoundError (an OSError, so False is returned) when
\* the other writer has already moved the temporary file away.
RaceMove(w) ==
    /\ race.w[w].pc = "move"
    /\ IF race.tmp = 0
       THEN race' = [race EXCEPT !.w[w].pc = "done", !.w[w].ret = "false"]
       ELSE race' = [race EXCEPT !.file = race.tmp, !.tmp = 0,
                                 !.w[w].pc = "done", !.w[w].ret = "true"]
    /\ RaceFrame

WriteSteps ==
    \/ MoveRename
    \/ MoveCopyOpen
    \/ MoveFail
    \/ CopyDone
    \/ CopyFail
    \/ UnlinkFail
    \/ WriteJsonEnd

\* What happens around the store of the legacy installation: another process
\* or the user replaces or deletes the settings file, time passes.
World ==
    \/ \E c \in ExtContents : ExtWrite("v1", c)
    \/ ExtDelete("v1")
    \/ Tick

\* The store as used for the legacy installation by a single-threaded caller,
\* every I/O error included; the world acts between two calls.
Next ==
    \/ \E kp \in GetPaths, fault \in ReadFaults : get_setting("v1", kp, fault)
    \/ \E kp \in SetPaths, val \in Scalars, fault \in ReadFaults,
          outcome \in WriteOutcomes :
          set_setting("v1", kp, val, fault, outcome)
    \/ WriteSteps
    \/ pc = "idle" /\ World

Spec == Init /\ [][Next]_vars

\* The same store with the world acting at any moment, also between two steps
\* of a write; the calls meet no I/O error.
NextConcurrent ==
    \/ \E kp \in GetPaths : get_setting("v1", kp, "none")
    \/ \E kp \in SetPaths, val \in Scalars :
          set_setting("v1", kp, val, "none", "ok")
    \/ MoveRename
    \/ MoveCopyOpen
    \/ CopyDone
    \/ WriteJsonEnd
    \/ World

SpecConcurrent == Init /\ [][NextConcurrent]_vars

\* Both installations in use, each addressed by every identifier that selects
\* it; the world leaves one kind of document behind.
NextBoth ==
    \/ \E yv \in YimVersions, fault \in ReadFaults :
          get_setting(yv, KP_auto_reload_scripts, fault)
    \/ \E yv \in YimVersions :
          set_setting(yv, KP_auto_reload_scripts, "true", "none", "ok")
    \/ \E yv \in YimVersions : ensure_settings_file_exists(yv, "ok")
    \/ WriteSteps
    \/ \E v \in Installations : ExtWrite(v, [kind |-> "doc", doc |-> Doc_ext])

SpecBoth == Init /\ [][NextBoth]_vars

\* Settings files created on demand and read, for both installations, every
\* I/O error included; the world acts on the legacy installation's file,
\* between two calls.
NextEnsure ==
    \/ \E yv \in YimVersions, outcome \in WriteOutcomes :
          ensure_settings_file_exists(yv, outcome)
    \/ \E v \in Installations, fault \in ReadFaults :
          get_setting(v, KP_light_mode, fault)
    \/ WriteSteps
    \/ pc = "idle" /\ World

SpecEnsure == Init /\ [][NextEnsure]_vars

\* The settings files of both installations created with the defaults, their
\* auto-reload flags written directly and synced from one installation to the
\* other; the replace step of a write may fail, reads do not, and no other
\* process writes.
NextSync ==
    \/ \E s \in YimVersions, t \in YimVersions :
          sync_auto_reload_settings(s, t, "none")
    \/ SyncSet("none", "ok")
    \/ \E v \in Installations,
          kp \in {KP_auto_reload_scripts, KP_auto_reload_changed_scripts} :
          set_setting(v, kp, "true", "none", "ok")
    \/ \E v \in Installations : ensure_settings_file_exists(v, "ok")
    \/ WriteSteps

SpecSync == Init /\ [][NextSync]_vars

\* The two auto-reload flags of the legacy installation written one by one
\* (set_auto_reload_scripts, set_auto_reload_changed_scripts) and together
\* (set_auto_reload_setting); the replace step of a write may fail, reads do
\* not, and no other process writes.
NextFlags ==
    \/ ensure_settings_file_exists("v1", "ok")
    \/ \E kp \in {KP_auto_reload_scripts, KP_auto_reload_changed_scripts},
          val \in Scalars : set_setting("v1", kp, val, "none", "ok")
    \/ \E val \in Scalars : set_auto_reload_setting(val, "v1", "none", "ok")
    \/ SetAutoReloadSecond("none", "ok")
    \/ WriteSteps

SpecFlags == Init /\ [][NextFlags]_vars

\* The read operations on both installations, while other programs write,
\* damage and delete the settings files.
NextReads ==
    \/ \E yv \in YimVersions, fault \in ReadFaults,
          kp \in {KP_auto_reload_scripts, KP_auto_reload_changed_scripts} :
          get_setting(yv, kp, fault)
    \/ \E fault1, fault2 \in ReadFaults :
          get_both_auto_reload_settings(fault1, fault2)
    \/ \E c \in ExtContents : ExtWrite("v1", c)
    \/ ExtWrite("v2", [kind |-> "malformed", doc |-> EmptyDoc])
    \/ ExtDelete("v1")
    \/ Tick

SpecReads == Init /\ [][NextReads]_vars

\* Two writers, each writing the settings file of one installation, a call
\* at a time.
NextRace ==
    \/ \E w \in Writers : \E n \in TextLengths[w] : RaceOpen(w, n)
    \/ \E w \in Writers : RaceDump(w)
    \/ \E w \in Writers : RaceMove(w)

SpecRace == Init /\ [][NextRace]_vars

\* --------------------------------------------------- check_for_updates
UpdateFrame ==
    UNCHANGED <<race, dirs, file, tmp, cache, lastmod, clock, pc, cur, last,
                degraded>>

\* A cache test that still serves the entry at exactly 300 seconds.
CacheFresh_inclusive(current_time) ==
    /\ REPO \in DOMAIN upd.cache
    /\ current_time - upd.cache[REPO].timestamp <= CACHE_DURATION_SECONDS

\* Lines 40-42: REPO in _update_cache and
\* (current_time - timestamp) < CACHE_DURATION_SECONDS.
CacheFresh(current_time) ==
    /\ REPO \in DOMAIN upd.cache
    /\ current_time - upd.cache[REPO].timestamp < CACHE_DURATION_SECONDS

\* Lines 59-65: the result of comparing parse(remote_version) with
\* parse(LOCAL_VERSION).
Comparison(remote_version) ==
    LET c == CompareFrom(remote_version, LOCAL_VERSION, 1)
    IN  IF c = "greater"
        THEN Result(STATUS_UPDATE_AVAILABLE, remote_version, "")
        ELSE IF c = "equal"
        THEN Result(STATUS_UP_TO_DATE, remote_version, "")
        ELSE Result(STATUS_AHEAD, remote_version, "")

\* check_for_updates(): reply is what the release host does if it is asked.
check_for_updates(reply) ==
    LET current_time == upd.now
        answer(result, queried) ==
            upd' = [upd EXCEPT !.ret = result, !.queried = queried]
        store(result) ==
            upd' = [upd EXCEPT
                      !.ret = result, !.queried = TRUE,
                      !.cache = (REPO :> [cached_data |-> result,
                                          timestamp |-> current_time]),
                      !.check = [made |-> TRUE, result |-> result,
                                 time |-> current_time]]
    IN  /\ IF CacheFresh(current_time)
           THEN answer(upd.cache[REPO].cached_data, FALSE)
           ELSE IF reply.kind = "raise"
           THEN answer(Result(STATUS_ERROR, <<>>, "exception"), TRUE)
           ELSE IF reply.kind = "none"
           THEN answer(Result(STATUS_ERROR, <<>>,
                              "Could not fetch release info"), TRUE)
           ELSE IF reply.version_tag = <<>>
           THEN answer(Result(STATUS_ERROR, <<>>, "InvalidVersion"), TRUE)
           ELSE store(Comparison(reply.version_tag))
        /\ UpdateFrame

\* Time passes between two calls.
AdvanceTime(d) ==
    /\ upd.now + d <= MaxTime
    /\ upd' = [upd EXCEPT !.now = @ + d]
    /\ UpdateFrame

NextUpdate ==
    \/ \E reply \in HostReplies : check_for_updates(reply)
    \/ \E d \in TimeSteps : AdvanceTime(d)

SpecUpdate == Init /\ [][NextUpdate]_vars

\* The script directories of both installations under the calls of
\* lua_manager, moves and copies failing or not.
NextLua ==
    \/ \E filename \in ScriptNames, version \in YimVersions,
          outcome \in MoveOutcomes : enable_script(filename, version, outcome)
    \/ \E filename \in ScriptNames, version \in YimVersions,
          outcome \in MoveOutcomes : disable_script(filename, version, outcome)
    \/ \E filename \in ScriptNames, from_version \in YimVersions,
          to_version \in YimVersions, enabled \in BOOLEAN,
          outcome \in CopyOutcomes :
          copy_script_between_versions(filename, from_version, to_version,
                                       enabled, outcome)
    \/ \E version \in YimVersions : get_scripts(version)

SpecLua == Init /\ [][NextLua]_vars

\* ------------------------------------------------------------- claims
PathOf(v) == SETTINGS_FILE_PATHS[v]

\* What a read that meets no I/O error makes of a file.
DiskDoc(f) == IF f.kind = "doc" THEN f.doc ELSE EmptyDoc

\* A write of set_setting returns ret in this step.
SetReturns(ret) ==
    pc # "idle" /\ pc' = "idle" /\ cur.op = "set" /\ last'.ret = ret

\* In the state after the step, a get_setting(key_path) on installation v
\* that meets no I/O error returns the scalar val.
GetsAfter(v, key_path, val) ==
    /\ ~(GetOutcome(v, key_path, "none").raised)'
    /\ (GetOutcome(v, key_path, "none").value)' = ScalarDoc(val)

\* The same for the call in progress (its arguments are those of the state
\* before the step).
GetsAfterCall ==
    \A v \in {cur.ver}, kp \in {cur.kp}, val \in {cur.val} :
        GetsAfter(v, kp, val)

\* C1, as claimed: set_setting(P, V) followed by get_setting(P) returns V,
\* whatever document the set found on disk and in the cache.  (Calls that
\* meet an I/O error are left out: the claim is not about them.)
C1_RoundTripAnyDocument ==
    [][/\ \A kp \in SetPaths, val \in Scalars :
             (set_setting("v1", kp, val, "none", "ok") /\ last'.why = "traverse")
                 => GetsAfter("v1", kp, val)
       /\ SetReturns("true") => GetsAfterCall]_vars

\* C1, amended: when set_setting(P, V) returns True, the get_setting(P) that
\* follows returns V.
C1_RoundTrip ==
    [][SetReturns("true") => GetsAfterCall]_vars

\* A nested set that returned True on a document holding other keys.
C1_Witness ==
    /\ pc = "idle" /\ last.op = "set" /\ last.ret = "true"
    /\ file[PathOf("v1")].kind = "doc"
    /\ <<<<"lua">>, <<"auto_reload_scripts">>>> \in DOMAIN cache["v1"]
    /\ <<<<"theme">>>> \in DOMAIN cache["v1"]

\* C2: get_setting never raises, and returns the default when a segment of the
\* key path is absent or an intermediate segment is not a mapping, whatever
\* the state of the file.
C2_GetNeverRaises ==
    pc = "idle" =>
        \A yv \in YimVersions, kp \in GetPaths, fault \in ReadFaults :
            LET o == GetOutcome(yv, kp, fault)
            IN  /\ ~o.raised
                /\ Split(kp) \notin DOMAIN o.used => o.value = DefaultVal

\* A step the store takes for installation v: the start of a set_setting or
\* ensure_settings_file_exists call, or a later step of its write.
StepFor(v) ==
    \/ pc # "idle" /\ pc' # pc /\ cur.ver = v
    \/ pc = "idle" /\ pc' # "idle" /\ cur'.ver = v
    \/ /\ pc = "idle" /\ pc' = "idle"
       /\ last'.op \in {"set", "ensure"} /\ last'.ver = v

\* C3: a step of a set_setting or ensure_settings_file_exists call addressed
\* to one installation leaves the other installation's settings file,
\* temporary file, cache entry, recorded mtime and get_setting results as
\* they were.
C3_Isolation ==
    [][\A v \in Installations, w \in Installations :
          (StepFor(v) /\ w # v) =>
              /\ file'[PathOf(w)] = file[PathOf(w)]
              /\ tmp'[PathOf(w)] = tmp[PathOf(w)]
              /\ cache'[w] = cache[w]
              /\ lastmod'[w] = lastmod[w]
              /\ \A fault \in ReadFaults :
                    GetOutcome(w, KP_auto_reload_scripts, fault)'
                        = GetOutcome(w, KP_auto_reload_scripts, fault)]_vars

\* Both installations hold a document of their own and the enhanced one has
\* just been written by set_setting.
C3_Witness ==
    /\ pc = "idle" /\ last.op = "set" /\ last.ver = "v2" /\ last.ret = "true"
    /\ file[PathOf("v1")].kind = "doc" /\ file[PathOf("v2")].kind = "doc"
    /\ file[PathOf("v1")].doc # file[PathOf("v2")].doc
    /\ cache["v1"] # NoneDoc /\ cache["v1"] # cache["v2"]

\* C4: once the settings file has been modified so that its mtime differs from
\* the one recorded with the cache entry, the next get_setting reads the file,
\* returns the values of the new content and records the new document and the
\* new mtime.
C4_ExternalChangeSeen ==
    LET f == file[PathOf("v1")]
    IN  (/\ pc = "idle" /\ f.kind # "missing"
         /\ cache["v1"] # NoneDoc /\ lastmod["v1"] # f.mtime)
        => \A kp \in GetPaths :
               LET o == GetOutcome("v1", kp, "none")
               IN  /\ o.reread /\ ~o.raised
                   /\ o.value = GetSettingValue(DiskDoc(f), Split(kp)).value
                   /\ o.cache = DiskDoc(f) /\ o.lastmod = f.mtime

\* C5: the document a get_setting call answers from is the document on disk,
\* also after another process has modified the file: here right after a
\* set_setting that returned True, the file carrying another timestamp than
\* the one the set wrote.
C5_GetUsesDiskDocument ==
    [][(SetReturns("true") /\ file[cur.path].mtime # cur.mtime)
          => \A v \in {cur.ver}, path \in {cur.path} :
                LET o == GetOutcome(v, KP_lua, "none")'
                IN  ~o.raised => o.used = DiskDoc(file'[path])]_vars

\* C6: the settings file is never half-written: whoever reads it finds the
\* complete previous content or the complete new one.
C6_NeverHalfWritten == \A v \in Installations : file[PathOf(v)].kind # "partial"

\* C7: when the write of set_setting fails, set_setting returns False and the
\* settings file still holds the document it held before the call (calls
\* whose read of the file met an I/O error aside).
C7_FailedWriteKeepsFile ==
    [][(SetReturns("false") /\ cur.pre.kind = "doc" /\ ~cur.fault)
          => file'[cur.path] = cur.pre]_vars

Unparseable(f) == f.kind \in {"malformed", "partial"}

ChainSet(d, keys, val) ==
    \A i \in 1..Len(keys) :
        LET q == SubSeq(keys, 1, i)
        IN  q \in DOMAIN d /\ d[q] = IF i = Len(keys) THEN val ELSE "map"

\* Where base has no mapping at a proper prefix of keys, new has a mapping
\* there that holds the rest of keys and nothing else.
ChainReplaced(base, new, keys) ==
    \A i \in 1..(Len(keys) - 1) :
        LET q == SubSeq(keys, 1, i)
        IN  (q \notin DOMAIN base \/ base[q] # "map")
            => {x \in DOMAIN new : IsPrefix(q, x)}
                   = {SubSeq(keys, 1, j) : j \in i..Len(keys)}

\* C9: set_setting replaces an absent or non-mapping intermediate segment by
\* an empty mapping and sets the leaf in it: the document it writes, and the
\* file and the cache entry once it has returned True, have a mapping at every
\* proper prefix of the key path and the value at the key path.
C9_IntermediateMappings ==
    [][/\ (pc = "idle" /\ pc' = "move")
             => \A kp \in {cur'.kp}, val \in {cur'.val}, fault \in ReadFaults :
                   set_setting("v1", kp, val, fault, "ok")
                       => /\ ChainSet(cur'.data, Split(kp), val)
                          /\ ChainReplaced(
                                 GetSettingsWithCache("v1", fault).data,
                                 cur'.data, Split(kp))
       /\ SetReturns("true")
             => /\ file'[cur.path].kind = "doc"
                /\ ChainSet(file'[cur.path].doc, Split(cur.kp), cur.val)
                /\ ChainSet(cache'[cur.ver], Split(cur.kp), cur.val)]_vars

\* lua = true on disk, and set_setting("lua.auto_reload_scripts", false) has
\* replaced the file.
C9_Witness ==
    /\ pc = "stat" /\ cur.op = "set" /\ cur.kp = KP_auto_reload_scripts
    /\ cur.pre.kind = "doc" /\ <<<<"lua">>>> \in DOMAIN cur.pre.doc
    /\ cur.pre.doc[<<<<"lua">>>>] = "true"
    /\ file[cur.path].kind = "doc"
    /\ file[cur.path].doc =
           Graft(Graft(cur.pre.doc, <<<<"lua">>>>, "map"),
                 <<<<"lua">>, <<"auto_reload_scripts">>>>, "false")

\* old and new agree on every path that is neither a prefix nor an extension
\* of keys.
SameElsewhere(old, new, keys) ==
    \A q \in DOMAIN old \cup DOMAIN new :
        (~IsPrefix(q, keys) /\ ~IsPrefix(keys, q))
            => q \in DOMAIN old /\ q \in DOMAIN new /\ old[q] = new[q]

\* C10: after a set_setting(P, V) that returned True the file holds the
\* document that was on disk before the call with only P changed (calls that
\* work on the {} of a read that met an I/O error aside).
C10_OnlyPathChanged ==
    [][(SetReturns("true") /\ ~cur.fault)
          => /\ file'[cur.path].kind = "doc"
             /\ SameElsewhere(DiskDoc(cur.pre), file'[cur.path].doc,
                              Split(cur.kp))]_vars

\* The write of an ensure_settings_file_exists call completes in this step.
EnsureCreated ==
    pc # "idle" /\ pc' = "idle" /\ cur.op = "ensure" /\ last'.why = "ok"

\* C11: once ensure_settings_file_exists has created the settings file of an
\* installation that had none, the file is a document, get_setting returns
\* false for each of the four default key paths, and the document holds no
\* key outside these paths (a call whose write meets an I/O error creates
\* nothing and is left out).
C11_DefaultsCreated ==
    [][EnsureCreated =>
          \A v \in {cur.ver}, path \in {cur.path} :
             /\ file'[path].kind = "doc"
             /\ \A kp \in DefaultPaths :
                   /\ ~(GetOutcome(v, kp, "none").raised)'
                   /\ (GetOutcome(v, kp, "none").value)' = ScalarDoc("false")
             /\ \A q \in DOMAIN file'[path].doc :
                   \E kp \in DefaultPaths : IsPrefix(q, Split(kp))
             /\ \A kp \in DefaultPaths : Split(kp) \in DOMAIN file'[path].doc]_vars

\* ensure_settings_file_exists has just created the enhanced installation's
\* file, over a cache entry left by an earlier file.
C11_Witness ==
    /\ pc = "idle" /\ last.op = "ensure" /\ last.ver = "v2" /\ last.why = "ok"
    /\ file[PathOf("v2")].kind = "doc"
    /\ file[PathOf("v2")].mtime = MaxClock
    /\ file[PathOf("v1")].kind = "missing"

\* C12: ensure_settings_file_exists on an installation whose settings file
\* exists, whatever it holds, returns at once and leaves the files, the
\* temporary files, the cache entries and the recorded mtimes as they were.
C12_EnsureNoOp ==
    [][\A yv \in YimVersions :
          (/\ file[GetFilePath(yv)].kind # "missing"
           /\ ensure_settings_file_exists(yv, "ok"))
          => /\ pc' = "idle"
             /\ file' = file /\ tmp' = tmp
             /\ cache' = cache /\ lastmod' = lastmod]_vars

\* ensure_settings_file_exists has just returned on a malformed file that
\* replaced the one the cache entry was read from.
C12_Witness ==
    /\ pc = "idle" /\ last.op = "ensure" /\ last.why = "exists"
    /\ file[PathOf("v1")].kind = "malformed"
    /\ cache["v1"] = DefaultSettings
    /\ lastmod["v1"] # file[PathOf("v1")].mtime

\* A sync_auto_reload_settings call returns ret in this step.
SyncReturns(ret) ==
    pc # "idle" /\ pc' = "idle" /\ cur.op = "sync" /\ last'.ret = ret

\* The auto_reload_changed_scripts value of the document in file f, False if
\* the document has none.
DiskAutoReloadChanged(f) ==
    AutoReloadChanged(
        GetSettingValue(DiskDoc(f), Split(KP_auto_reload_changed_scripts)))

C14_SyncSameNoOp ==
    [][\A s \in YimVersions :
          (pc = "idle" /\ sync_auto_reload_settings(s, s, "none"))
          => /\ pc' = "idle"
             /\ last'.op = "sync" /\ last'.ret = "true"
             /\ file' = file /\ tmp' = tmp
             /\ cache' = cache /\ lastmod' = lastmod]_vars

\* A same-version sync has returned where a read would have filled the cache.
C14_Witness ==
    /\ pc = "idle" /\ last.op = "sync" /\ last.why = "same"
    /\ last.ver = "v1" /\ last.ret = "true"
    /\ file[PathOf("v1")].kind = "doc"
    /\ cache["v1"] = NoneDoc

\* C15: a get_setting on an installation whose settings file is missing
\* returns the default for the key path, without raising, and leaves the
\* installation's cache entry and recorded modification time as they were,
\* whatever they hold.
C15_MissingFileRead ==
    [][(pc = "idle" /\ file[GetFilePath("v1")].kind = "missing")
       => \A kp \in GetPaths, fault \in ReadFaults :
          get_setting("v1", kp, fault)
          => /\ last'.ret = "value"
             /\ GetOutcome("v1", kp, fault).value = DefaultVal
             /\ GetOutcome("v1", kp, fault).used = EmptyDoc
             /\ ~last'.reread
             /\ cache' = cache /\ lastmod' = lastmod]_vars

\* A read of a missing file has returned with the entry of an earlier read
\* still in the cache.
C15_Witness ==
    /\ pc = "idle" /\ last.op = "get" /\ last.ret = "value" /\ ~last.reread
    /\ file[PathOf("v1")].kind = "missing"
    /\ cache["v1"] = Doc_ext
    /\ lastmod["v1"] = MaxClock

\* C16: a set_setting whose traversal fails (the document it works on has a
\* root that is not a mapping) returns False in that very step, raises
\* nothing, and writes nothing: the settings file and the temporary file are
\* as they were.
C16_TraversalFailure ==
    [][\A fault \in ReadFaults :
          (/\ pc = "idle"
           /\ ~GetSettingsWithCache("v1", fault).raised
           /\ GetSettingsWithCache("v1", fault).data[<<>>] # "map")
          => \A kp \in SetPaths, val \in Scalars, outcome \in WriteOutcomes :
             set_setting("v1", kp, val, fault, outcome)
             => /\ pc' = "idle"
                /\ last'.op = "set" /\ last'.ret = "false"
                /\ file' = file /\ tmp' = tmp]_vars

\* A set_setting on a document whose root is a list has failed its traversal.
C16_Witness ==
    /\ pc = "idle" /\ last.op = "set" /\ last.why = "traverse"
    /\ last.ret = "false"
    /\ file[PathOf("v1")] = FileOf("doc", Doc_list, file[PathOf("v1")].mtime)
    /\ tmp[PathOf("v1")].kind = "missing"

\* The script filename of installation v is enabled / disabled: a regular
\* file filename.lua in the active / disabled directory.
Enabled(v, filename) ==
    IsFile(get_script_paths(v).scripts_dir, ActualFilename(filename))
Disabled(v, filename) ==
    IsFile(get_script_paths(v).disabled_dir, ActualFilename(filename))

\* The step is a call of lua_manager that met no I/O error.
LuaCallWithoutError ==
    last'.op \in {"enable", "disable", "copy", "get_scripts"}
    /\ last'.why \in {"ok", "absent", "version", "samefile"}

\* C17: after any call of enable_script, disable_script or
\* copy_script_between_versions, even one that meets no I/O error, every
\* script of an installation is in exactly one of its two directories: never
\* in both, and a script that was in one of them is still in one.
C17_ScriptResidency ==
    [][LuaCallWithoutError
       => \A v \in Installations, filename \in ScriptNames :
             /\ ~(Enabled(v, filename)' /\ Disabled(v, filename)')
             /\ (Enabled(v, filename) \/ Disabled(v, filename))
                => (Enabled(v, filename)' \/ Disabled(v, filename)')]_vars

\* What C18 says of one call that moves filename.lua from src_dir to dest_dir.
MovedOrRefused(filename, src_dir, dest_dir, outcome) ==
    /\ ~PathExists(src_dir, ActualFilename(filename))
       => last'.ret = "false" /\ dirs' = dirs
    /\ (PathExists(src_dir, ActualFilename(filename)) /\ outcome = "ok")
       => /\ last'.ret = "true"
          /\ IsFile(dest_dir, ActualFilename(filename))'
          /\ ~PathExists(src_dir, ActualFilename(filename))'
    /\ last'.ret \in {"true", "false"}
    /\ last'.ret = "true" => outcome = "ok"

\* C18: enable_script (disable_script) of a script that is absent from the
\* disabled (active) directory returns False and leaves every directory of
\* both installations unchanged; when the script is there and the move
\* succeeds the call returns True, the script is in the destination directory
\* and no longer in the source directory.  No call raises.
C18_MoveOrRefuse ==
    [][last'.op \in {"enable", "disable"}
       => \A filename \in ScriptNames \cap {last'.name},
             version \in YimVersions \cap {last'.ver},
             outcome \in MoveOutcomes :
             /\ \/ MovedOrRefused(filename,
                                  get_script_paths(version).disabled_dir,
                                  get_script_paths(version).scripts_dir,
                                  outcome)
                \/ ~enable_script(filename, version, outcome)
             /\ \/ MovedOrRefused(filename,
                                  get_script_paths(version).scripts_dir,
                                  get_script_paths(version).disabled_dir,
                                  outcome)
                \/ ~disable_script(filename, version, outcome)]_vars

\* enable_script('a-b', 'v1') has moved the script next to the enabled a.lua.
C18_Witness ==
    /\ last.op = "enable" /\ last.ret = "true" /\ last.ver = "v1"
    /\ Enabled("v1", <<"a", "-", "b">>) /\ ~Disabled("v1", <<"a", "-", "b">>)
    /\ Enabled("v1", <<"a">>) /\ ~Disabled("v1", <<"a">>)
    /\ dirs[SCRIPTS_PATH_V2] = InitDirs[SCRIPTS_PATH_V2]
    /\ dirs[DISABLED_SCRIPTS_PATH_V2] = InitDirs[DISABLED_SCRIPTS_PATH_V2]

\* names is in ascending order of the strings it holds.
Ascending(names) ==
    \A i \in 1..Len(names), j \in 1..Len(names) :
        i < j => StrLess(names[i], names[j])

\* The base names of the .lua files of a directory.
BaseNames(directory) ==
    {RemoveSuffix(f, LuaSuffix) : f \in GetLuaFiles(directory)}

\* What C19 says of one list that get_scripts returned for a directory.
ListsDirectory(names, directory) ==
    /\ {names[i] : i \in 1..Len(names)} = BaseNames(directory)
    /\ Len(names) = Cardinality(BaseNames(directory))
    /\ Ascending(names)

\* C19: the two lists get_scripts(version) returns hold exactly the base
\* names of the .lua files of the active and of the disabled directory of the
\* installation, each once, in ascending order of the base names.
C19_SortedBaseNames ==
    [][last'.op = "get_scripts"
       => \A version \in YimVersions :
             get_scripts(version)
             => /\ ListsDirectory(last'.enabled,
                                  get_script_paths(version).scripts_dir)
                /\ ListsDirectory(last'.disabled,
                                  get_script_paths(version).disabled_dir)]_vars

\* The directory of an installation that the enabled flag of a copy selects.
ChosenDir(version, enabled) ==
    IF enabled THEN get_script_paths(version).scripts_dir
    ELSE get_script_paths(version).disabled_dir

\* What C20 says of one call that copies filename.lua.
CopiedOrRefused(filename, from_version, to_version, enabled) ==
    /\ last'.ret \in {"true", "false"}
    /\ last'.ret = "true"
       => /\ dirs'[ChosenDir(to_version, enabled)][ActualFilename(filename)]
             = dirs[ChosenDir(from_version, enabled)][ActualFilename(filename)]
          /\ IsFile(ChosenDir(to_version, enabled), ActualFilename(filename))'
          /\ \A d \in {get_script_paths(from_version).scripts_dir,
                        get_script_paths(from_version).disabled_dir} :
                dirs'[d] = dirs[d]
    /\ (\/ from_version \notin {"v1", "v2"}
        \/ to_version \notin {"v1", "v2"}
        \/ ~PathExists(ChosenDir(from_version, enabled),
                       ActualFilename(filename)))
       => last'.ret = "false" /\ dirs' = dirs

\* C20: a copy_script_between_versions that returns True has put the script,
\* with the content of the original, in the chosen directory (active when
\* enabled, disabled otherwise) of the target installation, and both
\* directories of the source installation are as they were, the original
\* included; with an identifier outside {v1, v2} or without the source file
\* the call returns False and no directory changes.
C20_CopyKeepsOriginal ==
    [][last'.op = "copy"
       => \A filename \in ScriptNames \cap {last'.name},
             from_version \in YimVersions,
             to_version \in YimVersions \cap {last'.ver},
             enabled \in BOOLEAN, outcome \in CopyOutcomes :
             \/ CopiedOrRefused(filename, from_version, to_version, enabled)
             \/ ~copy_script_between_versions(filename, from_version,
                                              to_version, enabled, outcome)
      ]_vars

\* copy_script_between_versions('a', 'v1', 'v2') has returned True: v2 has the
\* content of v1's a.lua in its active directory and v1 is as it was.
C20_Witness ==
    /\ last.op = "copy" /\ last.ret = "true" /\ last.ver = "v2"
    /\ dirs[SCRIPTS_PATH_V2][ActualFilename(<<"a">>)] = "c1"
    /\ dirs[SCRIPTS_PATH] = InitDirs[SCRIPTS_PATH]
    /\ dirs[DISABLED_SCRIPTS_PATH] = InitDirs[DISABLED_SCRIPTS_PATH]

\* The wrapper set_auto_reload_setting returns ret in this step.
BothReturns(ret) ==
    /\ pc # "idle" /\ pc' = "idle"
    /\ cur.op \in {"both1", "both2t", "both2f"} /\ last'.ret = ret

\* C21: a set_auto_reload_scripts or set_auto_reload_changed_scripts that
\* returns True leaves every key of the document on disk other than its own
\* as it was, and a set_auto_reload_setting(V) returns True only if both its
\* writes succeeded, the file then holding V under both flags.
C21_FlagsIndependent ==
    [][/\ SetReturns("true")
          => \A path \in {cur.path}, kp \in {cur.kp}, pre \in {cur.pre} :
                /\ file'[path].kind = "doc"
                /\ SameElsewhere(DiskDoc(pre), file'[path].doc, Split(kp))
       /\ BothReturns("true")
          => \A path \in {cur.path}, val \in {cur.val} :
                /\ cur.op = "both2t"
                /\ file'[path].kind = "doc"
                /\ \A kp \in {KP_auto_reload_scripts,
                              KP_auto_reload_changed_scripts} :
                      /\ Split(kp) \in DOMAIN file'[path].doc
                      /\ file'[path].doc[Split(kp)] = val
      ]_vars

\* The texts a writer can have written in full.
CompleteTexts == {TextOf(w, n) : w \in Writers, n \in 1..Cardinality(Inodes)}

\* C22: once the calls of both writers have finished, the settings file holds
\* the complete text written by one of the two writers, never a mixture of
\* two serialisations.
C22_LastWriterWins ==
    (\A w \in Writers : race.w[w].pc = "done")
    => /\ race.file # 0
       /\ race.data[race.file] \in CompleteTexts

\* C23: when set_setting returns True the cache entry holds the document just
\* written and the recorded modification time is that of the file version the
\* call put in place, so that whenever the recorded time equals the file's
\* current time (a later get_setting is served from the cache) the cached
\* document is the one on disk, also when another process has replaced the
\* file between the replace step and the timestamp read.
C23_CacheMatchesWrittenFile ==
    [][SetReturns("true")
       => \A v \in {cur.ver}, path \in {cur.path}, data \in {cur.data},
             mtime \in {cur.mtime} :
             /\ cache'[v] = data
             /\ lastmod'[v] = mtime
             /\ lastmod'[v] = file'[path].mtime
                => DiskDoc(file'[path]) = cache'[v]]_vars

\* C24: a set_setting that returns False, because the traversal failed or
\* because the temporary file could not be written, does not leave the
\* attempted change in the cached document: a get_setting made after the
\* failed call returns, for every key path, what it would have returned
\* before the call (calls whose read of the file met an I/O error aside).
C24_FailedSetLeavesReads ==
    [][(pc = "idle" /\ pc' = "idle" /\ last'.op = "set" /\ last'.ret = "false")
       => \A kp \in SetPaths, val \in Scalars, outcome \in WriteOutcomes :
             set_setting("v1", kp, val, "none", outcome)
             => \A k \in GetPaths :
                   LET before == GetOutcome("v1", k, "none")
                       after == GetOutcome("v1", k, "none")'
                   IN  /\ after.raised = before.raised
                       /\ after.value = before.value]_vars

\* C25: reads never write: get_setting (and with it get_auto_reload_scripts and
\* get_auto_reload_changed_scripts) and get_both_auto_reload_settings leave
\* every settings file and every temporary file as they found it, whether
\* the file is missing, malformed or valid; the empty document a malformed
\* file degrades to goes to the cache only.
C25_ReadsNeverWrite ==
    [][\/ file' = file /\ tmp' = tmp
       \/ last'.op \notin {"get", "getboth"}
       \/ ~(\/ \E yv \in YimVersions, fault \in ReadFaults,
                   kp \in {KP_auto_reload_scripts,
                           KP_auto_reload_changed_scripts} :
                   get_setting(yv, kp, fault)
             \/ \E fault1, fault2 \in ReadFaults :
                   get_both_auto_reload_settings(fault1, fault2))]_vars

\* A read has degraded a malformed file to the empty document, which is now
\* the cached document, and the file is still the malformed one.
C25_Witness ==
    /\ last.op \in {"get", "getboth"}
    /\ file[GetFilePath("v1")].kind = "malformed"
    /\ cache["v1"] = EmptyDoc
    /\ lastmod["v1"] = file[GetFilePath("v1")].mtime

\* The distinct script files of an installation: the (name, content) pairs
\* found in its scripts directory or in its disabled directory.
ScriptFiles(v) ==
    {<<n, dirs[d][n]>> : n \in FileNames,
                         d \in {get_script_paths(v).scripts_dir,
                                get_script_paths(v).disabled_dir}}
    \ {<<n, "none">> : n \in FileNames}

\* C26: no script file is destroyed by a toggle or a copy: enable_script,
\* disable_script and copy_script_between_versions never replace a file that
\* exists under the same name in the destination directory, so the distinct
\* script files of each installation only grow or stay the same.
C26_NoScriptDestroyed ==
    [][last'.op \in {"enable", "disable", "copy"}
       => /\ \A d \in DirPaths, n \in FileNames :
                (dirs[d][n] # "none" /\ dirs'[d][n] # "none")
                => dirs'[d][n] = dirs[d][n]
          /\ \A v \in Installations : ScriptFiles(v) \subseteq ScriptFiles(v)']_vars

\* The step is a call of check_for_updates.
UpdateCall == \E reply \in HostReplies : check_for_updates(reply)

\* C27: check_for_updates keeps a time-boxed cache of one comparison result.
\* A call made less than 300 seconds after the check that last produced a
\* version comparison returns that result without querying the release
\* host; a call at or after 300 seconds, or with no such check before it,
\* queries the host; an ERROR result is never in the cache, and the call
\* after a call that returned ERROR queries the host.
C27_TimeBoxedCache ==
    [][UpdateCall
       => /\ (upd.check.made
               /\ upd.now - upd.check.time < CACHE_DURATION_SECONDS)
              => (upd'.ret = upd.check.result /\ ~upd'.queried)
          /\ (~upd.check.made
               \/ upd.now - upd.check.time >= CACHE_DURATION_SECONDS)
              => upd'.queried
          /\ upd.ret.status = STATUS_ERROR => upd'.queried
          /\ \A r \in DOMAIN upd'.cache :
                upd'.cache[r].cached_data.status # STATUS_ERROR]_vars

\* A call made 299 seconds after the check that produced a comparison has been
\* answered from the cache.
C27_Witness ==
    /\ upd.check.made
    /\ upd.now - upd.check.time = 299
    /\ upd.ret = upd.check.result
    /\ ~upd.queried

====
